---- MODULE Spec2Model ----
(***************************************************************************)
(* Model of the two-player trivia server (src/server.js): the persisted    *)
(* game state, the first-round and consensus submission handlers, reset,   *)
(* the view of GET /api/state, and the load -> transition -> save cycle of *)
(* each request handler.                                                   *)
(*                                                                         *)
(* Spec      requests handled one at a time                                *)
(* SpecConc  handlers overlapping between their load and their save        *)
(* SpecFile  loadGameState and saveGameState at the level of the file      *)
(* SpecView  requests one at a time, GET /api/state among them             *)
(* SpecLive  players who end up submitting only correct answers            *)
(*                                                                         *)
(* Left out: createdAt and history[i].timestamp, question text and hint,   *)
(* logging; no branch of the handlers reads them.  lastModified appears    *)
(* only in the file-level specification.                                   *)
(***************************************************************************)
EXTENDS Naturals, Sequences, FiniteSets, TLC

\* ------------------------------------------------------------------ bounds
MaxQuestions == 2
MaxHistory == 2

\* --------------------------------------------------------------- constants
LACHLAN == "lachlan"
LEIGH == "leigh"
Players == {LACHLAN, LEIGH}

\* JavaScript null in an answer slot
NULL == "null"
\* a request body without an answer field (falsy)
NoAnswer == ""

\* request inputs: any player string, any answer string
PlayerInputs == Players \cup {"eve"}
AnswerInputs == {"A", "B", "C", NoAnswer}

\* questions.json: every question has choices and a correct_answer among them;
\* the catalog is the first n of these questions, alternating
QuestionPool ==
    << [choices |-> {"A", "B"}, correct_answer |-> "A"],
       [choices |-> {"B", "C"}, correct_answer |-> "B"] >>

CatalogOfLength(n) == [i \in 1..n |-> QuestionPool[((i - 1) % Len(QuestionPool)) + 1]]

Catalogs == {CatalogOfLength(n) : n \in 0..MaxQuestions}

VARIABLES
    questions,  \* the catalog read by loadQuestions
    store,      \* contents of game-state.json (parsed)
    last,       \* the request that saved last: its inputs and the state it had loaded
    inflight,   \* concurrent handlers: position, inputs and loaded state
    base,       \* stored state when the current group of concurrent requests began
    file,       \* game-state.json as text on disk (the file-level specification)
    response,   \* the body GET /api/state sent last, and to whom
    mode        \* "any": arbitrary requests; "correct": only correct submissions

vars == <<questions, store, last, inflight, base, file, response, mode>>

\* ------------------------------------------------------------ state record
NoAnswers == [p \in Players |-> NULL]

createInitialState ==
    [ currentQuestion |-> 0,
      answers |-> NoAnswers,
      consensusAnswers |-> NoAnswers,
      inDisagreement |-> FALSE,
      disagreementResolved |-> FALSE,
      showHint |-> FALSE,
      completed |-> FALSE,
      history |-> <<>> ]

isValidPlayer(player) == player = LACHLAN \/ player = LEIGH

\* accepting any answer that is present
isValidAnswerPresent(answer, choices) == answer # NoAnswer

isValidAnswer(answer, choices) == answer \in choices

otherPlayerOf(player) == IF player = LACHLAN THEN LEIGH ELSE LACHLAN

\* questions[i] with JavaScript's 0-based index
QuestionAt(qs, i) == qs[i + 1]

\* ------------------------------------------------------------- game logic
\* history entry pushed by processAnswer (both players correct first time)
FirstRoundRecord(state, currentQ) ==
    [ question |-> state.currentQuestion,
      lachlanAnswer |-> state.answers[LACHLAN],
      leighAnswer |-> state.answers[LEIGH],
      correctAnswer |-> currentQ.correct_answer,
      bothCorrect |-> TRUE ]

\* history entry pushed by the consensus handler when the two values agree
ConsensusRecord(state, currentQ, consensusAnswer) ==
    [ question |-> state.currentQuestion,
      initialAnswers |-> state.answers,
      consensusAnswer |-> consensusAnswer,
      correctAnswer |-> currentQ.correct_answer,
      wasCorrect |-> (consensusAnswer = currentQ.correct_answer),
      wasConsensus |-> TRUE ]

\* off by one: > instead of >=
MarkCompletedLate(state, qs) ==
    IF state.currentQuestion > Len(qs)
    THEN [state EXCEPT !.completed = TRUE]
    ELSE state

\* if (state.currentQuestion >= questions.length) state.completed = true
MarkCompleted(state, qs) ==
    IF state.currentQuestion >= Len(qs)
    THEN [state EXCEPT !.completed = TRUE]
    ELSE state

\* advance without resetting state.answers
AdvanceFirstRoundKeepingAnswers(state, currentQ, qs) ==
    MarkCompleted(
        [state EXCEPT !.history = Append(@, FirstRoundRecord(state, currentQ)),
                      !.currentQuestion = @ + 1,
                      !.inDisagreement = FALSE],
        qs)

\* advance counting the question twice
AdvanceFirstRoundTwice(state, currentQ, qs) ==
    MarkCompleted(
        [state EXCEPT !.history = Append(@, FirstRoundRecord(state, currentQ)),
                      !.currentQuestion = @ + 2,
                      !.answers = NoAnswers,
                      !.inDisagreement = FALSE],
        qs)

\* advance without `state.inDisagreement = false`
AdvanceFirstRoundStillDisagreeing(state, currentQ, qs) ==
    MarkCompleted(
        [state EXCEPT !.history = Append(@, FirstRoundRecord(state, currentQ)),
                      !.currentQuestion = @ + 1,
                      !.answers = NoAnswers],
        qs)

\* advance without the history.push
AdvanceFirstRoundUnlogged(state, currentQ, qs) ==
    MarkCompleted(
        [state EXCEPT !.currentQuestion = @ + 1,
                      !.answers = NoAnswers,
                      !.inDisagreement = FALSE],
        qs)

\* the both-correct branch of processAnswer
AdvanceFirstRound(state, currentQ, qs) ==
    MarkCompleted(
        [state EXCEPT !.history = Append(@, FirstRoundRecord(state, currentQ)),
                      !.currentQuestion = @ + 1,
                      !.answers = NoAnswers,
                      !.inDisagreement = FALSE],
        qs)

\* the wrong-answer branch forgetting to raise the flag
EnterConsensusModeUnflagged(state) ==
    [state EXCEPT !.disagreementResolved = FALSE]

\* the wrong-answer branch resetting the first-round answers
EnterConsensusModeClearingAnswers(state) ==
    [state EXCEPT !.inDisagreement = TRUE, !.disagreementResolved = FALSE,
                  !.answers = NoAnswers]

\* the either-player-wrong branch of processAnswer
EnterConsensusMode(state) ==
    [state EXCEPT !.inDisagreement = TRUE, !.disagreementResolved = FALSE]

\* processAnswer testing the submitting player's slot instead of the other's
processAnswerCheckingSelf(state, player, answer, qs) ==
    LET currentQ == QuestionAt(qs, state.currentQuestion)
        recorded == [state EXCEPT !.answers[player] = answer]
        lachlanCorrect == recorded.answers[LACHLAN] = currentQ.correct_answer
        leighCorrect == recorded.answers[LEIGH] = currentQ.correct_answer
    IN  IF recorded.answers[player] # NULL
        THEN IF lachlanCorrect /\ leighCorrect
             THEN AdvanceFirstRound(recorded, currentQ, qs)
             ELSE EnterConsensusMode(recorded)
        ELSE recorded

processAnswer(state, player, answer, qs) ==
    LET currentQ == QuestionAt(qs, state.currentQuestion)
        otherPlayer == otherPlayerOf(player)
        recorded == [state EXCEPT !.answers[player] = answer]
        lachlanCorrect == recorded.answers[LACHLAN] = currentQ.correct_answer
        leighCorrect == recorded.answers[LEIGH] = currentQ.correct_answer
    IN  IF recorded.answers[otherPlayer] # NULL
        THEN IF lachlanCorrect /\ leighCorrect
             THEN AdvanceFirstRound(recorded, currentQ, qs)
             ELSE EnterConsensusMode(recorded)
        ELSE recorded

\* ---------------------------------------------------------- request handlers
\* A handler maps the state it loaded to the state it leaves in the file and
\* the HTTP status of its response; saved is FALSE when it returns before
\* saveGameState.
Rejected(state) == [state |-> state, status |-> 400, saved |-> FALSE]
Accepted(state) == [state |-> state, status |-> 200, saved |-> TRUE]
Failed(state) == [state |-> state, status |-> 500, saved |-> FALSE]

\* POST /api/answer without `state.showHint = false`
answerHandlerKeepingHint(state, player, answer, qs) ==
    IF ~isValidPlayer(player) THEN Rejected(state)
    ELSE IF answer = NoAnswer THEN Rejected(state)
    ELSE IF state.currentQuestion >= Len(qs) THEN Rejected(state)
    ELSE IF ~isValidAnswer(answer, QuestionAt(qs, state.currentQuestion).choices)
         THEN Rejected(state)
    ELSE IF state.answers[player] # NULL /\ ~state.inDisagreement THEN Rejected(state)
    ELSE Accepted(processAnswer(state, player, answer, qs))

\* POST /api/answer without the already-answered check
answerHandlerAllowingOverwrite(state, player, answer, qs) ==
    IF ~isValidPlayer(player) THEN Rejected(state)
    ELSE IF answer = NoAnswer THEN Rejected(state)
    ELSE IF state.currentQuestion >= Len(qs) THEN Rejected(state)
    ELSE IF ~isValidAnswer(answer, QuestionAt(qs, state.currentQuestion).choices)
         THEN Rejected(state)
    ELSE Accepted(processAnswer([state EXCEPT !.showHint = FALSE], player, answer, qs))

\* POST /api/answer
answerHandler(state, player, answer, qs) ==
    IF ~isValidPlayer(player) THEN Rejected(state)
    ELSE IF answer = NoAnswer THEN Rejected(state)
    ELSE IF state.currentQuestion >= Len(qs) THEN Rejected(state)
    ELSE IF ~isValidAnswer(answer, QuestionAt(qs, state.currentQuestion).choices)
         THEN Rejected(state)
    ELSE IF state.answers[player] # NULL /\ ~state.inDisagreement THEN Rejected(state)
    ELSE Accepted(processAnswer([state EXCEPT !.showHint = FALSE], player, answer, qs))

\* correct consensus leaving the consensus values in place
ConsensusCorrectKeepingConsensus(state, qs) ==
    MarkCompleted(
        [state EXCEPT !.currentQuestion = @ + 1,
                      !.answers = NoAnswers,
                      !.inDisagreement = FALSE,
                      !.showHint = FALSE],
        qs)

\* the two consensus values agree and are correct
ConsensusCorrect(state, qs) ==
    MarkCompleted(
        [state EXCEPT !.currentQuestion = @ + 1,
                      !.answers = NoAnswers,
                      !.consensusAnswers = NoAnswers,
                      !.inDisagreement = FALSE,
                      !.showHint = FALSE],
        qs)

\* wrong consensus without the hint (as the legacy resolution did)
ConsensusWrongNoHint(state) ==
    [state EXCEPT !.answers = NoAnswers,
                  !.consensusAnswers = NoAnswers,
                  !.inDisagreement = FALSE]

\* wrong consensus leaving the first-round answers in place
ConsensusWrongKeepingAnswers(state) ==
    [state EXCEPT !.consensusAnswers = NoAnswers,
                  !.inDisagreement = FALSE,
                  !.showHint = TRUE]

\* the two consensus values agree and are wrong
ConsensusWrong(state) ==
    [state EXCEPT !.answers = NoAnswers,
                  !.consensusAnswers = NoAnswers,
                  !.inDisagreement = FALSE,
                  !.showHint = TRUE]

\* differing consensus values resetting the first-round answers too
ConsensusMismatchClearingAnswers(state) ==
    [state EXCEPT !.consensusAnswers = NoAnswers, !.answers = NoAnswers]

\* the two consensus values differ
ConsensusMismatch(state) ==
    [state EXCEPT !.consensusAnswers = NoAnswers]

\* the agreed pair logged over the earlier records instead of after them
processConsensusReplacingHistory(state, player, answer, qs) ==
    LET currentQ == QuestionAt(qs, state.currentQuestion)
        otherPlayer == otherPlayerOf(player)
        recorded == [state EXCEPT !.consensusAnswers[player] = answer]
        lachlanConsensus == recorded.consensusAnswers[LACHLAN]
        leighConsensus == recorded.consensusAnswers[LEIGH]
        logged == [recorded EXCEPT !.history =
                       <<ConsensusRecord(recorded, currentQ, lachlanConsensus)>>]
    IN  IF recorded.consensusAnswers[otherPlayer] # NULL
        THEN IF lachlanConsensus = leighConsensus
             THEN IF lachlanConsensus = currentQ.correct_answer
                  THEN ConsensusCorrect(logged, qs)
                  ELSE ConsensusWrong(logged)
             ELSE ConsensusMismatch(recorded)
        ELSE recorded

\* the part of the consensus handler after validation
processConsensus(state, player, answer, qs) ==
    LET currentQ == QuestionAt(qs, state.currentQuestion)
        otherPlayer == otherPlayerOf(player)
        recorded == [state EXCEPT !.consensusAnswers[player] = answer]
        lachlanConsensus == recorded.consensusAnswers[LACHLAN]
        leighConsensus == recorded.consensusAnswers[LEIGH]
        logged == [recorded EXCEPT !.history =
                       Append(@, ConsensusRecord(recorded, currentQ, lachlanConsensus))]
    IN  IF recorded.consensusAnswers[otherPlayer] # NULL
        THEN IF lachlanConsensus = leighConsensus
             THEN IF lachlanConsensus = currentQ.correct_answer
                  THEN ConsensusCorrect(logged, qs)
                  ELSE ConsensusWrong(logged)
             ELSE ConsensusMismatch(recorded)
        ELSE recorded

\* POST /api/consensus without the consensus-mode check
consensusHandlerAnyPhase(state, player, answer, qs) ==
    IF ~isValidPlayer(player) THEN Rejected(state)
    ELSE IF answer = NoAnswer THEN Rejected(state)
    ELSE IF state.currentQuestion >= Len(qs) THEN Failed(state)
    ELSE IF ~isValidAnswer(answer, QuestionAt(qs, state.currentQuestion).choices)
         THEN Rejected(state)
    ELSE Accepted(processConsensus(state, player, answer, qs))

\* POST /api/consensus
consensusHandler(state, player, answer, qs) ==
    IF ~isValidPlayer(player) THEN Rejected(state)
    ELSE IF answer = NoAnswer THEN Rejected(state)
    ELSE IF ~state.inDisagreement THEN Rejected(state)
    \* questions[currentQuestion] undefined: currentQ.choices throws, caught, 500
    ELSE IF state.currentQuestion >= Len(qs) THEN Failed(state)
    ELSE IF ~isValidAnswer(answer, QuestionAt(qs, state.currentQuestion).choices)
         THEN Rejected(state)
    ELSE Accepted(processConsensus(state, player, answer, qs))

\* POST /api/reset
resetHandler(state) == Accepted(createInitialState)

Handle(kind, state, player, answer, qs) ==
    CASE kind = "answer" -> answerHandler(state, player, answer, qs)
      [] kind = "consensus" -> consensusHandler(state, player, answer, qs)
      [] kind = "reset" -> resetHandler(state)

\* GET /api/state showing both first-round answers in every phase
stateViewShowingAnswers(state, player, qs) ==
    LET otherPlayer == otherPlayerOf(player)
        body == [ currentQuestion |-> state.currentQuestion,
                  totalQuestions |-> Len(qs),
                  inDisagreement |-> state.inDisagreement,
                  showHint |-> state.showHint,
                  completed |-> state.completed,
                  playerAnswered |-> state.answers[player] # NULL,
                  otherPlayerAnswered |-> state.answers[otherPlayer] # NULL,
                  playerAnswer |-> state.answers[player],
                  playerConsensusAnswered |-> state.consensusAnswers[player] # NULL,
                  otherPlayerConsensusAnswered |->
                      state.consensusAnswers[otherPlayer] # NULL ]
    IN  IF ~state.completed /\ state.currentQuestion < Len(qs)
        THEN body @@ [question |-> [choices |-> QuestionAt(qs, state.currentQuestion).choices],
                      answers |-> state.answers]
        ELSE body

\* GET /api/state: the response body for a valid player (question text and
\* hint are left out of the model)
stateView(state, player, qs) ==
    LET otherPlayer == otherPlayerOf(player)
        body == [ currentQuestion |-> state.currentQuestion,
                  totalQuestions |-> Len(qs),
                  inDisagreement |-> state.inDisagreement,
                  showHint |-> state.showHint,
                  completed |-> state.completed,
                  playerAnswered |-> state.answers[player] # NULL,
                  otherPlayerAnswered |-> state.answers[otherPlayer] # NULL,
                  playerAnswer |-> state.answers[player],
                  playerConsensusAnswered |-> state.consensusAnswers[player] # NULL,
                  otherPlayerConsensusAnswered |->
                      state.consensusAnswers[otherPlayer] # NULL ]
        withQuestion ==
            body @@ [question |-> [choices |-> QuestionAt(qs, state.currentQuestion).choices]]
    IN  IF ~state.completed /\ state.currentQuestion < Len(qs)
        THEN IF state.inDisagreement
             THEN withQuestion @@ [answers |-> state.answers]
             ELSE withQuestion
        ELSE body

\* GET /api/state with its player check
stateHandler(state, player, qs) ==
    IF ~isValidPlayer(player)
    THEN [status |-> 400, body |-> [error |-> "Invalid player"]]
    ELSE [status |-> 200, body |-> stateView(state, player, qs)]

\* no GET /api/state answered yet
NoResponse == [to |-> "", status |-> 0, body |-> [error |-> ""]]

\* ------------------------------------------------------------ persistence
\* `new Date().toISOString()`: when the state file was first written, and the
\* later moments at which a handler saves (nothing reads the value)
StartTime == "t0"
Times == {"t1"}

\* state.lastModified = new Date().toISOString()
Stamp(state, now) ==
    [k \in DOMAIN state \cup {"lastModified"} |->
        IF k = "lastModified" THEN now ELSE state[k]]

\* a record without some of its properties
Without(state, keys) == [k \in DOMAIN state \ keys |-> state[k]]

\* JSON text of an object: its properties as name/value pairs
JSONstringify(state) == {<<k, state[k]>> : k \in DOMAIN state}

\* the object a JSON text denotes
JSONparse(text) == [k \in {p[1] : p \in text} |-> (CHOOSE p \in text : p[1] = k)[2]]

\* game-state.json holding a complete JSON document
JsonFile(text) == [form |-> "json", text |-> text]
\* opened for writing (flag 'w' truncates) and the data not yet written
Truncated == [form |-> "empty", text |-> {}]
\* bytes that are not a JSON document
Garbage == [form |-> "garbage", text |-> {}]
\* no file at all (readFile rejects with ENOENT)
Missing == [form |-> "missing", text |-> {}]

\* the file a saveGameState(state) at time now leaves when nothing interferes
SavedFile(state, now) == JsonFile(JSONstringify(Stamp(state, now)))

\* backwards compatibility overwriting the consensus values on every load
DefaultFillAlways(state) ==
    LET withConsensus ==
            [k \in DOMAIN state \cup {"consensusAnswers"} |->
                IF k = "consensusAnswers" THEN NoAnswers ELSE state[k]]
    IN  IF "showHint" \notin DOMAIN withConsensus
        THEN withConsensus @@ [showHint |-> FALSE]
        ELSE withConsensus

\* backwards compatibility: add new fields if missing
DefaultFill(state) ==
    LET withConsensus ==
            IF "consensusAnswers" \notin DOMAIN state
            THEN state @@ [consensusAnswers |-> NoAnswers]
            ELSE state
    IN  IF "showHint" \notin DOMAIN withConsensus
        THEN withConsensus @@ [showHint |-> FALSE]
        ELSE withConsensus

\* the try block of loadGameState: readFile, JSON.parse, default fill; failed
\* when readFile rejects or JSON.parse throws (the catch block is taken)
ReadState(f) ==
    IF f.form = "json"
    THEN [failed |-> FALSE, state |-> DefaultFill(JSONparse(f.text))]
    ELSE [failed |-> TRUE, state |-> createInitialState]

\* the file after a writeFile has written its text: the document, or, when
\* another writeFile wrote since this one truncated the file and that
\* document was longer, this document followed by the tail of the other
WrittenFile(state, mixed) == IF mixed THEN Garbage ELSE JsonFile(JSONstringify(state))

\* the state file the server starts with: initializeEnvironment wrote it
InitialFile == SavedFile(createInitialState, StartTime)

\* records written by earlier versions of the server
LegacyFiles ==
    { JsonFile(JSONstringify(Without(Stamp(createInitialState, StartTime), keys))) :
        keys \in {{"consensusAnswers", "showHint"}, {"showHint"}} }

\* what game-state.json may hold when the server starts
InitialFiles == {InitialFile, Garbage} \cup LegacyFiles

\* -------------------------------------------------- requests one at a time
NoRequest == [kind |-> "none", player |-> "", answer |-> "", loaded |-> createInitialState]

\* a handler that is not running
Idle == [pc |-> "idle", kind |-> "none", player |-> "", answer |-> "",
         st |-> createInitialState, status |-> 0]

\* the handlers that may run at the same time
Reqs == {"r1", "r2"}

Init ==
    /\ questions \in Catalogs
    /\ store = createInitialState
    /\ last = NoRequest
    /\ inflight = [r \in Reqs |-> Idle]
    /\ base = createInitialState
    /\ file = InitialFile
    /\ response = NoResponse
    /\ mode = "any"

\* the whole handler runs between two requests: load, transition, save
Serve(kind, player, answer) ==
    LET out == Handle(kind, store, player, answer, questions)
    IN  /\ Len(out.state.history) <= MaxHistory
        /\ store' = out.state
        /\ last' = IF out.saved
                   THEN [kind |-> kind, player |-> player, answer |-> answer, loaded |-> store]
                   ELSE last
        /\ UNCHANGED <<questions, inflight, base, file, response, mode>>

Answer == \E p \in PlayerInputs, a \in AnswerInputs : Serve("answer", p, a)

Consensus == \E p \in PlayerInputs, a \in AnswerInputs : Serve("consensus", p, a)

Reset == Serve("reset", "", "")

Next == Answer \/ Consensus \/ Reset

Spec == Init /\ [][Next]_vars

\* ------------------------------------------------ requests that overlap
\* A handler suspends at `await loadGameState()` / `await loadQuestions()` and
\* at `await saveGameState(state)`; the part between is run to completion.
\* No lock is taken, so another handler may run between the load and the save.

\* a group of overlapping requests starts from the stored state
Quiescent == \A r \in Reqs : inflight[r].pc = "idle"

\* loadGameState returns: the handler holds its own copy of the stored state
Load(r, kind, player, answer) ==
    /\ inflight[r].pc = "idle"
    /\ inflight' = [inflight EXCEPT ![r] =
           [pc |-> "loaded", kind |-> kind, player |-> player, answer |-> answer,
            st |-> store, status |-> 0]]
    /\ base' = IF Quiescent THEN store ELSE base
    /\ UNCHANGED <<questions, store, last, file, response, mode>>

\* validation, transition on the loaded copy, saveGameState, response
Finish(r) ==
    LET req == inflight[r]
        out == Handle(req.kind, req.st, req.player, req.answer, questions)
    IN  /\ req.pc = "loaded"
        /\ Len(out.state.history) <= MaxHistory
        /\ store' = IF out.saved THEN out.state ELSE store
        /\ inflight' = [inflight EXCEPT ![r].pc = "done", ![r].status = out.status]
        /\ UNCHANGED <<questions, last, base, file, response, mode>>

\* POST /api/reset has no load: createInitialState and saveGameState
ResetNow(r) ==
    /\ inflight[r].pc = "idle"
    /\ store' = resetHandler(store).state
    /\ inflight' = [inflight EXCEPT ![r] =
           [pc |-> "done", kind |-> "reset", player |-> "", answer |-> "",
            st |-> store, status |-> 200]]
    /\ base' = IF Quiescent THEN store ELSE base
    /\ UNCHANGED <<questions, last, file, response, mode>>

\* all responses sent; the next group of requests may arrive
Retire ==
    /\ ~Quiescent
    /\ \A r \in Reqs : inflight[r].pc \in {"idle", "done"}
    /\ inflight' = [r \in Reqs |-> Idle]
    /\ base' = store
    /\ UNCHANGED <<questions, store, last, file, response, mode>>

LoadAnswer == \E r \in Reqs, p \in Players, a \in AnswerInputs : Load(r, "answer", p, a)

LoadConsensus == \E r \in Reqs, p \in Players, a \in AnswerInputs : Load(r, "consensus", p, a)

FinishSome == \E r \in Reqs : Finish(r)

ResetSome == \E r \in Reqs : ResetNow(r)

NextConc == LoadAnswer \/ LoadConsensus \/ FinishSome \/ ResetSome \/ Retire

SpecConc == Init /\ [][NextConc]_vars

\* --------------------------------------------- the state file under load
\* loadGameState and saveGameState at the level of the file.  fs.readFile
\* reads what the file holds at that moment; fs.writeFile opens it with flag
\* 'w', which truncates it, and writes the text afterwards; either may reject.
\* GET /api/state loads the state like every handler.  A handler that read
\* the state runs up to the start of its save in one step (handlers
\* overlapping between load and save are the subject of SpecConc); requests
\* arrive in groups of at most one per handler slot, as in SpecConc.

Request(pc, kind, st, status) ==
    [pc |-> pc, kind |-> kind, player |-> "", answer |-> "", st |-> st, status |-> status]

\* the handler responds; only the status is kept
Responded(kind, status) == Request("done", "none", createInitialState, status)

InitFile ==
    /\ questions \in Catalogs
    /\ store = createInitialState
    /\ last = NoRequest
    /\ inflight = [r \in Reqs |-> Idle]
    /\ base = createInitialState
    /\ file \in InitialFiles
    /\ response = NoResponse
    /\ mode = "any"

\* saveGameState(state) called by handler r: the record is stamped and
\* serialized, then writeFile truncates the file, or rejects and the handler
\* responds 500
BeginSave(r, kind, state) ==
    \/ \E now \in Times :
           /\ inflight' = [inflight EXCEPT ![r] = Request("saving", kind, Stamp(state, now), 0)]
           /\ file' = Truncated
    \/ /\ inflight' = [inflight EXCEPT ![r] = Responded(kind, 500)]
       /\ file' = file

\* the catch block of loadGameState: createInitialState, saveGameState(newState);
\* when the write rejects, loadGameState rejects
BeginRecovery(r, kind) ==
    \/ \E now \in Times :
           /\ inflight' = [inflight EXCEPT ![r] =
                  Request("recovering", kind, Stamp(createInitialState, now), 0)]
           /\ file' = Truncated
    \/ /\ inflight' = [inflight EXCEPT ![r] = Request("thrown", kind, createInitialState, 500)]
       /\ file' = file

\* a submission handler from the state it loaded to the start of its save
Submit(r, kind, state, player, answer) ==
    LET out == Handle(kind, state, player, answer, questions)
    IN  /\ Len(out.state.history) <= MaxHistory
        /\ IF out.saved
           THEN BeginSave(r, kind, out.state)
           ELSE /\ inflight' = [inflight EXCEPT ![r] = Responded(kind, out.status)]
                /\ file' = file

\* POST /api/answer or /api/consensus arrives
FileSubmit(r, kind, player, answer) ==
    LET read == ReadState(file)
    IN  /\ inflight[r].pc = "idle"
        /\ IF read.failed
           THEN BeginRecovery(r, kind)
           ELSE Submit(r, kind, read.state, player, answer)
        /\ UNCHANGED <<questions, store, last, base, response, mode>>

\* GET /api/state arrives
FileView(r, player) ==
    LET read == ReadState(file)
    IN  /\ inflight[r].pc = "idle"
        /\ IF read.failed
           THEN BeginRecovery(r, "state")
           ELSE /\ inflight' = [inflight EXCEPT ![r] = Responded("state", 200)]
                /\ file' = file
        /\ UNCHANGED <<questions, store, last, base, response, mode>>

\* the writeFile of the catch block completes; loadGameState returns newState
FileRecover(r) ==
    /\ inflight[r].pc = "recovering"
    /\ \E mixed \in BOOLEAN :
           /\ mixed => file.form # "empty"
           /\ file' = WrittenFile(inflight[r].st, mixed)
    /\ inflight' = [inflight EXCEPT ![r].pc = "recovered"]
    /\ UNCHANGED <<questions, store, last, base, response, mode>>

\* the handler goes on with the state loadGameState returned from its catch
\* block; the request's player and answer are first read here
FileResume(r) ==
    /\ inflight[r].pc = "recovered"
    /\ IF inflight[r].kind = "state"
       THEN /\ inflight' = [inflight EXCEPT ![r] = Responded("state", 200)]
            /\ file' = file
       ELSE \E p \in Players, a \in AnswerInputs :
                Submit(r, inflight[r].kind, inflight[r].st, p, a)
    /\ UNCHANGED <<questions, store, last, base, response, mode>>

\* the writeFile of the handler's saveGameState completes
FileSaved(r) ==
    /\ inflight[r].pc = "saving"
    /\ \E mixed \in BOOLEAN :
           /\ mixed => file.form # "empty"
           /\ file' = WrittenFile(inflight[r].st, mixed)
    /\ inflight' = [inflight EXCEPT ![r] = Responded(inflight[r].kind, 200)]
    /\ UNCHANGED <<questions, store, last, base, response, mode>>

\* POST /api/reset: createInitialState and saveGameState, no load
FileReset(r) ==
    /\ inflight[r].pc = "idle"
    /\ BeginSave(r, "reset", createInitialState)
    /\ UNCHANGED <<questions, store, last, base, response, mode>>

\* all responses sent; the next group of requests may arrive
FileRetire ==
    /\ ~Quiescent
    /\ \A r \in Reqs : inflight[r].pc \in {"idle", "done", "thrown"}
    /\ inflight' = [r \in Reqs |-> Idle]
    /\ UNCHANGED <<questions, store, last, base, file, response, mode>>

\* one handler slot serves the view requests, the other the submissions and
\* resets: a view overlaps a submission, two submissions overlap in SpecConc
Viewer == "r2"
Submitter == "r1"

FileViews == \E p \in Players : FileView(Viewer, p)

FileAnswer == \E p \in Players, a \in AnswerInputs : FileSubmit(Submitter, "answer", p, a)

FileConsensus ==
    \E p \in Players, a \in AnswerInputs : FileSubmit(Submitter, "consensus", p, a)

FileResets == FileReset(Submitter)

FileWrites == \E r \in Reqs : FileRecover(r) \/ FileSaved(r)

FileContinues == \E r \in Reqs : FileResume(r)

NextFile ==
    \/ FileViews \/ FileAnswer \/ FileConsensus \/ FileResets
    \/ FileWrites \/ FileContinues \/ FileRetire

SpecFile == InitFile /\ [][NextFile]_vars

\* ------------------------------------------- players who answer correctly
\* Requests one at a time: first any requests, then (from any state reached)
\* both players only submit the correct answer of the question in play, each
\* through an entry point that accepts it.

InitLive ==
    /\ questions \in Catalogs \ {<<>>}
    /\ store = createInitialState
    /\ last = NoRequest
    /\ inflight = [r \in Reqs |-> Idle]
    /\ base = createInitialState
    /\ file = InitialFile
    /\ response = NoResponse
    /\ mode = "any"

\* any request, handled as in Serve (what was requested before the players
\* settle down is not recorded)
AnyRequest ==
    /\ mode = "any"
    /\ \E kind \in {"answer", "consensus", "reset"}, p \in Players, a \in AnswerInputs :
           LET out == Handle(kind, store, p, a, questions)
           IN  /\ Len(out.state.history) <= MaxHistory
               /\ store' = out.state
    /\ UNCHANGED <<questions, last, inflight, base, file, response, mode>>

\* from now on only correct submissions
SettleDown ==
    /\ mode = "any"
    /\ mode' = "correct"
    /\ UNCHANGED <<questions, store, last, inflight, base, file, response>>

\* player submits the correct answer through /api/answer or /api/consensus
\* and the handler accepts it
PlayCorrectVia(kind, player) ==
    /\ mode = "correct"
    /\ store.currentQuestion < Len(questions)
    /\ LET answer == QuestionAt(questions, store.currentQuestion).correct_answer
           out == Handle(kind, store, player, answer, questions)
       IN  /\ out.saved
           /\ store' = out.state
           /\ last' = [kind |-> kind, player |-> player, answer |-> answer, loaded |-> store]
    /\ UNCHANGED <<questions, inflight, base, file, response, mode>>

PlayCorrect(player) == \E kind \in {"answer", "consensus"} : PlayCorrectVia(kind, player)

NextLive == AnyRequest \/ SettleDown \/ PlayCorrect(LACHLAN) \/ PlayCorrect(LEIGH)

\* each player keeps submitting: weak fairness on the two players
SpecLive ==
    /\ InitLive
    /\ [][NextLive]_vars
    /\ WF_vars(PlayCorrect(LACHLAN))
    /\ WF_vars(PlayCorrect(LEIGH))

\* ------------------------------------------------------ what a player sees
\* Requests one at a time, with GET /api/state among them.  response holds
\* the body of the latest view request until the next submission is handled.

\* a submission or reset, handled as in Serve
ServeBetweenViews ==
    /\ \E kind \in {"answer", "consensus", "reset"}, p \in PlayerInputs, a \in AnswerInputs :
           LET out == Handle(kind, store, p, a, questions)
           IN  /\ Len(out.state.history) <= MaxHistory
               /\ store' = out.state
    /\ response' = NoResponse
    /\ UNCHANGED <<questions, last, inflight, base, file, mode>>

\* GET /api/state?player=...
GetState(player) ==
    LET out == stateHandler(store, player, questions)
    IN  /\ response' = [to |-> player, status |-> out.status, body |-> out.body]
        /\ UNCHANGED <<questions, store, last, inflight, base, file, mode>>

NextView == ServeBetweenViews \/ \E p \in PlayerInputs : GetState(p)

SpecView == Init /\ [][NextView]_vars

\* ======================================================== properties
\* The request that saved last, read against the state it had loaded.
LastQ == QuestionAt(questions, last.loaded.currentQuestion)
LastOther == otherPlayerOf(last.player)
AcceptedAnswer == last.kind = "answer"
AcceptedConsensus == last.kind = "consensus"

\* the accepted first-round submission completed the pair
PairComplete == AcceptedAnswer /\ last.loaded.answers[LastOther] # NULL
BothFirstRoundCorrect ==
    /\ PairComplete
    /\ last.answer = LastQ.correct_answer
    /\ last.loaded.answers[LastOther] = LastQ.correct_answer
SomeFirstRoundWrong ==
    /\ PairComplete
    /\ \/ last.answer # LastQ.correct_answer
       \/ last.loaded.answers[LastOther] # LastQ.correct_answer

\* the accepted consensus submission completed the pair of consensus values
ConsensusPairComplete == AcceptedConsensus /\ last.loaded.consensusAnswers[LastOther] # NULL
ConsensusAgree == ConsensusPairComplete /\ last.loaded.consensusAnswers[LastOther] = last.answer
ConsensusDiffer == ConsensusPairComplete /\ last.loaded.consensusAnswers[LastOther] # last.answer

\* the stored history is the loaded history plus exactly one record
OneRecordAppended ==
    /\ Len(store.history) = Len(last.loaded.history) + 1
    /\ SubSeq(store.history, 1, Len(last.loaded.history)) = last.loaded.history
NewRecord == store.history[Len(store.history)]

\* C1: any interleaving of concurrently handled requests leaves the stored state
\* that some serial order of the same requests would leave (no lost update).
RECURSIVE SerialOutcomes(_, _)
SerialOutcomes(s, pending) ==
    IF pending = {} THEN {s}
    ELSE UNION { SerialOutcomes(
                     Handle(inflight[r].kind, s, inflight[r].player, inflight[r].answer,
                            questions).state,
                     pending \ {r}) : r \in pending }

C1_Serializable ==
    (~Quiescent /\ \A r \in Reqs : inflight[r].pc \in {"idle", "done"})
        => store \in SerialOutcomes(base, {r \in Reqs : inflight[r].pc = "done"})

\* C2: an accepted first-round submission that leaves both answers present and
\* correct advances currentQuestion by exactly 1, empties answers, clears
\* inDisagreement, appends one bothCorrect record, and sets completed exactly
\* when the new index is the catalog length (Normal phase or overwrite during
\* disagreement alike).
C2_BothCorrectAdvances ==
    BothFirstRoundCorrect =>
        /\ store.currentQuestion = last.loaded.currentQuestion + 1
        /\ store.answers = NoAnswers
        /\ store.inDisagreement = FALSE
        /\ OneRecordAppended
        /\ "bothCorrect" \in DOMAIN NewRecord
        /\ NewRecord.bothCorrect = TRUE
        /\ store.completed <=> (store.currentQuestion = Len(questions))

C2_Witness == BothFirstRoundCorrect /\ last.loaded.inDisagreement /\ ~store.completed

\* C3: an accepted first-round submission that leaves both answers present with
\* at least one wrong sets inDisagreement, keeps currentQuestion, keeps both
\* first-round answers stored, keeps completed and appends no history record.
C3_AnyWrongDisagreement ==
    SomeFirstRoundWrong =>
        /\ store.inDisagreement = TRUE
        /\ store.currentQuestion = last.loaded.currentQuestion
        /\ store.answers[last.player] = last.answer
        /\ store.answers[LastOther] = last.loaded.answers[LastOther]
        /\ store.completed = last.loaded.completed
        /\ store.history = last.loaded.history

C3_Witness == SomeFirstRoundWrong /\ ~last.loaded.inDisagreement

\* C4: in disagreement, a consensus pair that agrees on the correct answer
\* clears inDisagreement and showHint, advances currentQuestion by exactly 1,
\* empties answers and consensusAnswers, appends one record with wasConsensus
\* and wasCorrect, and sets completed exactly when the catalog is exhausted.
C4_ConsensusCorrectAdvances ==
    (ConsensusAgree /\ last.answer = LastQ.correct_answer) =>
        /\ store.inDisagreement = FALSE
        /\ store.showHint = FALSE
        /\ store.currentQuestion = last.loaded.currentQuestion + 1
        /\ store.answers = NoAnswers
        /\ store.consensusAnswers = NoAnswers
        /\ OneRecordAppended
        /\ "wasConsensus" \in DOMAIN NewRecord
        /\ NewRecord.wasConsensus = TRUE
        /\ NewRecord.wasCorrect = TRUE
        /\ store.completed <=> (store.currentQuestion = Len(questions))

C4_Witness ==
    /\ ConsensusAgree
    /\ last.answer = LastQ.correct_answer
    /\ last.loaded.inDisagreement
    /\ ~store.completed

\* C5: in disagreement, a consensus pair that agrees on a wrong answer clears
\* inDisagreement, sets showHint, keeps currentQuestion and completed, and
\* empties answers and consensusAnswers.
C5_ConsensusWrongHints ==
    (ConsensusAgree /\ last.answer # LastQ.correct_answer) =>
        /\ store.inDisagreement = FALSE
        /\ store.showHint = TRUE
        /\ store.currentQuestion = last.loaded.currentQuestion
        /\ store.completed = last.loaded.completed
        /\ store.answers = NoAnswers
        /\ store.consensusAnswers = NoAnswers

C5_Witness ==
    /\ ConsensusAgree
    /\ last.answer # LastQ.correct_answer
    /\ last.loaded.inDisagreement
    /\ store.showHint

\* C6: in disagreement, a consensus pair with two different values empties both
\* consensus slots and changes nothing else: inDisagreement stays true,
\* currentQuestion, first-round answers, showHint and history are unchanged.
C6_ConsensusMismatchResets ==
    ConsensusDiffer =>
        /\ store.consensusAnswers = NoAnswers
        /\ store.inDisagreement = TRUE
        /\ store.currentQuestion = last.loaded.currentQuestion
        /\ store.answers = last.loaded.answers
        /\ store.showHint = last.loaded.showHint
        /\ store.history = last.loaded.history

C6_Witness == ConsensusDiffer /\ last.loaded.inDisagreement

\* C7: currentQuestion equals the catalog length exactly when completed is
\* true (for every catalog length, the empty catalog included), and once
\* completed every first-round or consensus submission is rejected without
\* saving.
C7_CompletedIffExhausted ==
    /\ (store.currentQuestion = Len(questions)) <=> store.completed
    /\ store.completed =>
           \A p \in PlayerInputs, a \in AnswerInputs :
               /\ answerHandler(store, p, a, questions) = Rejected(store)
               /\ consensusHandler(store, p, a, questions) = Rejected(store)

\* C7 amended: completed implies currentQuestion equals the catalog length;
\* the converse holds for a non-empty catalog; whenever currentQuestion equals
\* the catalog length every first-round or consensus submission is rejected
\* without saving, and no submission that saved had loaded a completed state.
C7_CompletedImpliesExhausted ==
    /\ store.completed => store.currentQuestion = Len(questions)
    /\ (store.currentQuestion = Len(questions) /\ Len(questions) > 0) => store.completed
    /\ store.currentQuestion = Len(questions) =>
           \A p \in PlayerInputs, a \in AnswerInputs :
               /\ answerHandler(store, p, a, questions) = Rejected(store)
               /\ consensusHandler(store, p, a, questions) = Rejected(store)
    /\ (AcceptedAnswer \/ AcceptedConsensus) => ~last.loaded.completed

C7_Witness ==
    /\ store.completed
    /\ Len(questions) = MaxQuestions
    /\ AcceptedAnswer \/ AcceptedConsensus

\* C8: whenever inDisagreement is false both consensusAnswers slots are empty.
C8_ConsensusOnlyInDisagreement ==
    ~store.inDisagreement => store.consensusAnswers = NoAnswers

\* C9: right after an accepted first-round submission whose evaluation finds an
\* answer wrong, both consensusAnswers slots are empty.
C9_DisagreementStartsEmpty ==
    SomeFirstRoundWrong => store.consensusAnswers = NoAnswers

\* phases of the round state machine
Phase(state) ==
    IF state.completed THEN "Completed"
    ELSE IF state.inDisagreement THEN "Disagreement"
    ELSE IF state.showHint THEN "HintedRetry"
    ELSE "Normal"

PhaseFrom == Phase(last.loaded)
PhaseTo == Phase(store)
Advanced == store.currentQuestion = last.loaded.currentQuestion + 1
SameQuestion == store.currentQuestion = last.loaded.currentQuestion

\* the eight transitions of the round state machine, each with its trigger
ListedTransition ==
    \/ PhaseFrom = "Normal" /\ PhaseTo = "Normal" /\ BothFirstRoundCorrect /\ Advanced
    \/ PhaseFrom = "Normal" /\ PhaseTo = "Disagreement" /\ SomeFirstRoundWrong /\ SameQuestion
    \/ PhaseFrom = "Disagreement" /\ PhaseTo = "Disagreement" /\ ConsensusDiffer /\ SameQuestion
    \/ /\ PhaseFrom = "Disagreement" /\ PhaseTo = "Normal"
       /\ ConsensusAgree /\ last.answer = LastQ.correct_answer /\ Advanced
    \/ /\ PhaseFrom = "Disagreement" /\ PhaseTo = "HintedRetry"
       /\ ConsensusAgree /\ last.answer # LastQ.correct_answer /\ SameQuestion
    \/ PhaseFrom = "HintedRetry" /\ PhaseTo = "Normal" /\ AcceptedAnswer /\ SameQuestion
    \/ PhaseFrom = "Normal" /\ PhaseTo = "Completed" /\ BothFirstRoundCorrect /\ Advanced
    \/ /\ PhaseFrom = "Disagreement" /\ PhaseTo = "Completed"
       /\ ConsensusAgree /\ last.answer = LastQ.correct_answer /\ Advanced

\* a submission recorded while the game stays in its phase on the same question
\* (first answer or first consensus value of a pair, or a first-round answer
\* re-evaluated as still wrong during disagreement)
StaysInPhase ==
    /\ PhaseFrom \in {"Normal", "Disagreement"}
    /\ PhaseFrom = PhaseTo
    /\ SameQuestion
    /\ \/ AcceptedAnswer /\ ~PairComplete
       \/ AcceptedConsensus /\ ~ConsensusPairComplete
       \/ PhaseFrom = "Disagreement" /\ SomeFirstRoundWrong

\* a first-round answer overwritten during disagreement makes both correct
OverwriteAdvances ==
    /\ PhaseFrom = "Disagreement"
    /\ PhaseTo \in {"Normal", "Completed"}
    /\ BothFirstRoundCorrect
    /\ Advanced

\* C10 as claimed: every accepted submission is one of the eight listed
\* transitions or stays in its phase; in particular no first-round submission
\* leaves Disagreement or advances the question during Disagreement.
C10_OnlyListedTransitions ==
    (AcceptedAnswer \/ AcceptedConsensus) =>
        /\ ListedTransition \/ StaysInPhase
        /\ (AcceptedAnswer /\ PhaseFrom = "Disagreement")
               => (PhaseTo = "Disagreement" /\ SameQuestion)

\* C10 amended: every accepted submission is one of the eight listed
\* transitions, stays in its phase, or is a first-round overwrite during
\* disagreement that makes both answers correct and advances; consensus leaves
\* Disagreement only by a pair that agrees.
C10_TransitionsWithOverwrite ==
    (AcceptedAnswer \/ AcceptedConsensus) =>
        /\ ListedTransition \/ StaysInPhase \/ OverwriteAdvances
        /\ (AcceptedConsensus /\ PhaseFrom = "Disagreement" /\ PhaseTo # "Disagreement")
               => ConsensusAgree

C10_Witness == AcceptedAnswer /\ OverwriteAdvances

\* C11: a second first-round answer by a player whose answer is already
\* stored, while the game is not in disagreement, is rejected and nothing is
\* saved: the first value, the other player's slot and currentQuestion stay.
C11_SecondAnswerRejected ==
    \A p \in Players, a \in AnswerInputs :
        (store.answers[p] # NULL /\ ~store.inDisagreement)
            => answerHandler(store, p, a, questions) = Rejected(store)

C11_Witness ==
    /\ AcceptedAnswer
    /\ store.answers[last.player] = last.answer
    /\ store.answers[LastOther] = NULL
    /\ ~store.inDisagreement

\* C12: a consensus submission in any state with inDisagreement false is
\* rejected and nothing is saved.
C12_ConsensusNeedsDisagreement ==
    ~store.inDisagreement =>
        \A p \in PlayerInputs, a \in AnswerInputs :
            consensusHandler(store, p, a, questions) = Rejected(store)

C12_Witness ==
    /\ ~store.inDisagreement
    /\ ~store.completed
    /\ store.showHint
    /\ store.history # <<>>

\* a request that fails validation against the stored state
InvalidRequest(p, a) ==
    \/ ~(p \in Players)
    \/ a = NoAnswer
    \/ /\ store.currentQuestion < Len(questions)
       /\ ~(a \in QuestionAt(questions, store.currentQuestion).choices)

\* C13: a first-round or consensus submission with an unknown player, a
\* missing answer or an answer outside the current question's choices is
\* rejected before any mutation, in every phase.
C13_InvalidRejected ==
    \A p \in PlayerInputs, a \in AnswerInputs :
        InvalidRequest(p, a) =>
            /\ answerHandler(store, p, a, questions) = Rejected(store)
            /\ consensusHandler(store, p, a, questions) = Rejected(store)

C13_Witness ==
    /\ store.inDisagreement
    /\ store.consensusAnswers # NoAnswers
    /\ store.currentQuestion = 1

\* C14: an accepted first-round submission made while the other player has
\* no answer stored only records answers[player] and clears showHint; every
\* other field of the stored state is as loaded.
C14_FirstAnswerOnlyRecords ==
    (AcceptedAnswer /\ last.loaded.answers[LastOther] = NULL) =>
        store = [last.loaded EXCEPT !.answers[last.player] = last.answer,
                                    !.showHint = FALSE]

C14_Witness ==
    /\ AcceptedAnswer
    /\ last.loaded.answers[LastOther] = NULL
    /\ last.loaded.showHint
    /\ store.answers[last.player] = last.answer

\* C15: 0 <= currentQuestion <= number of questions in every reachable state.
C15_IndexWithinCatalog ==
    store.currentQuestion \in 0..Len(questions)

C15_Witness ==
    /\ store.currentQuestion = Len(questions)
    /\ Len(questions) >= 1
    /\ AcceptedConsensus
    /\ Advanced

\* C16: inDisagreement and completed are never both true.
C16_NotDisagreeingWhenCompleted ==
    ~(store.inDisagreement /\ store.completed)

C16_Witness ==
    /\ store.completed
    /\ AcceptedAnswer
    /\ last.loaded.inDisagreement

\* both first-round answers of the stored state are present, one of them wrong
StoredPairWrong ==
    /\ store.currentQuestion < Len(questions)
    /\ store.answers[LACHLAN] # NULL
    /\ store.answers[LEIGH] # NULL
    /\ \E p \in Players :
           store.answers[p] # QuestionAt(questions, store.currentQuestion).correct_answer

\* C17: inDisagreement is true exactly when both first-round answers for the
\* current question are present and at least one of them is wrong, also after
\* an overwrite during disagreement.
C17_DisagreementIffPairWrong ==
    store.inDisagreement <=> StoredPairWrong

C17_Witness ==
    /\ StoredPairWrong
    /\ store.inDisagreement
    /\ AcceptedAnswer
    /\ last.loaded.inDisagreement

\* the request that saved last was a consensus pair agreeing on a wrong answer
LastWasWrongConsensus == ConsensusAgree /\ last.answer # LastQ.correct_answer

\* C18: showHint is true exactly when the most recent accepted request was a
\* consensus pair agreeing on a wrong answer; every accepted first-round
\* submission leaves showHint false; and while showHint is true inDisagreement
\* and completed are false and all four answer slots are empty.
C18_HintIffLastConsensusWrong ==
    /\ store.showHint <=> LastWasWrongConsensus
    /\ AcceptedAnswer => ~store.showHint
    /\ store.showHint =>
           /\ ~store.inDisagreement
           /\ ~store.completed
           /\ store.answers = NoAnswers
           /\ store.consensusAnswers = NoAnswers

C18_Witness == store.showHint /\ LastWasWrongConsensus /\ store.currentQuestion = 1

\* the request that saved last emptied a non-empty answers map
AnswersCleared ==
    /\ last.loaded.answers # NoAnswers
    /\ store.answers = NoAnswers

\* C19: an accepted submission empties a non-empty answers map exactly when it
\* advances currentQuestion (both first-round answers correct, or consensus
\* agreed on the correct answer) or is a consensus pair agreeing on a wrong
\* answer; every such submission leaves both slots empty and no other accepted
\* submission clears a stored first-round answer.
C19_AnswersClearedOnlyOnResolution ==
    (AcceptedAnswer \/ AcceptedConsensus) =>
        /\ AnswersCleared <=> (BothFirstRoundCorrect \/ ConsensusAgree)
        /\ Advanced <=> \/ BothFirstRoundCorrect
                        \/ ConsensusAgree /\ last.answer = LastQ.correct_answer
        /\ ~(BothFirstRoundCorrect \/ ConsensusAgree) =>
               \A p \in Players :
                   last.loaded.answers[p] # NULL => store.answers[p] # NULL

C19_Witness == AcceptedConsensus /\ AnswersCleared /\ ~Advanced

\* a history record of a round that resolved its question
Resolving(rec) ==
    IF "bothCorrect" \in DOMAIN rec THEN rec.bothCorrect ELSE rec.wasCorrect

ResolvingRecords == {i \in 1..Len(store.history) : Resolving(store.history[i])}

\* C20 as claimed: the number of history records equals currentQuestion, with
\* exactly one record for each question index below currentQuestion and none
\* for the question still in play.
C20_OneRecordPerQuestion ==
    /\ Len(store.history) = store.currentQuestion
    /\ \A i \in 1..Len(store.history) : store.history[i].question = i - 1

\* C20 amended: the records that resolved a question (bothCorrect, or
\* wasConsensus with wasCorrect) are exactly one for each question index below
\* currentQuestion; every other record is a consensus pair that agreed on a
\* wrong answer (wasCorrect false), for the question in play or an earlier one.
C20_OneResolvingRecordPerQuestion ==
    /\ Cardinality(ResolvingRecords) = store.currentQuestion
    /\ \A q \in 0..(store.currentQuestion - 1) :
           Cardinality({i \in ResolvingRecords : store.history[i].question = q}) = 1
    /\ \A i \in 1..Len(store.history) :
           \/ i \in ResolvingRecords
           \/ /\ "wasConsensus" \in DOMAIN store.history[i]
              /\ store.history[i].wasConsensus
              /\ ~store.history[i].wasCorrect
              /\ store.history[i].question <= store.currentQuestion

C20_Witness ==
    /\ Len(store.history) > store.currentQuestion
    /\ store.currentQuestion = 1
    /\ ResolvingRecords # {}


\* history a extended by at most one record gives history b
ExtendsByAtMostOne(a, b) ==
    /\ Len(a) <= Len(b)
    /\ Len(b) <= Len(a) + 1
    /\ SubSeq(b, 1, Len(a)) = a

\* C21: history is append-only. Any submission, accepted or rejected, leaves
\* the stored records as a prefix of the new history and appends at most one
\* record; the question indices of the records never decrease along the
\* sequence; a history that was not empty is empty again only after a reset.
C21_HistoryAppendOnly ==
    /\ \A kind \in {"answer", "consensus"}, p \in PlayerInputs, a \in AnswerInputs :
           ExtendsByAtMostOne(store.history,
                              Handle(kind, store, p, a, questions).state.history)
    /\ (AcceptedAnswer \/ AcceptedConsensus) =>
           ExtendsByAtMostOne(last.loaded.history, store.history)
    /\ \A i \in 1..Len(store.history) : \A j \in i..Len(store.history) :
           store.history[i].question <= store.history[j].question
    /\ (last.loaded.history # <<>> /\ store.history = <<>>) => last.kind = "reset"

C21_Witness ==
    /\ AcceptedConsensus
    /\ Len(last.loaded.history) = 1
    /\ Len(store.history) = 2
    /\ store.history[1].question < store.history[2].question


\* a step in which POST /api/reset runs (it has no load: one step)
ResetStep ==
    \E r \in Reqs :
        /\ inflight[r].pc = "idle"
        /\ inflight'[r].pc = "done"
        /\ inflight'[r].kind = "reset"

\* C22: reset replaces the stored state with the initial state, and under any
\* interleaving of request handlers reset is the only step that lowers the
\* stored currentQuestion.
C22_OnlyResetLowersQuestion ==
    [][ /\ ResetStep => store' = createInitialState
        /\ store'.currentQuestion < store.currentQuestion => ResetStep ]_vars


\* handler r starts loadGameState in this step and its read fails
LoadFails(r) ==
    /\ inflight[r].pc = "idle"
    /\ inflight'[r].pc \in {"recovering", "thrown"}

\* C23: save is atomic with respect to load. No load reads the file while a
\* save has it truncated (a load sees the complete previous or the complete
\* new record), and a view request that arrives while a submission is being
\* saved leaves the file as it is.
C23_SaveAtomic ==
    [][ /\ \A r \in Reqs : LoadFails(r) => file.form # "empty"
        /\ ( /\ inflight[Submitter].pc = "saving"
             /\ inflight[Viewer].pc = "idle"
             /\ inflight'[Viewer].pc # "idle" ) => file' = file ]_vars

\* the legacy default fill, read off the document and the loaded record
DefaultsFilled(doc, loaded) ==
    /\ loaded.consensusAnswers =
           IF "consensusAnswers" \in DOMAIN doc THEN doc.consensusAnswers ELSE NoAnswers
    /\ loaded.showHint = IF "showHint" \in DOMAIN doc THEN doc.showHint ELSE FALSE
    /\ DOMAIN loaded = DOMAIN doc \cup {"consensusAnswers", "showHint"}
    /\ \A k \in DOMAIN doc \ {"consensusAnswers", "showHint"} : loaded[k] = doc[k]

\* C24: load never fails towards its caller. No handler gets a rejection from
\* loadGameState; a handler whose read failed holds a freshly initialized
\* state, which the file holds too once that write is done; and a readable
\* record is returned with consensusAnswers and showHint filled in when they
\* are missing and every other field as stored.
C24_LoadNeverFails ==
    /\ \A r \in Reqs : inflight[r].pc # "thrown"
    /\ \A r \in Reqs : inflight[r].pc \in {"recovering", "recovered"} =>
           Without(inflight[r].st, {"lastModified"}) = createInitialState
    /\ \A f \in {Truncated, Garbage, Missing} : ReadState(f).failed
    /\ file.form = "json" =>
           /\ ~ReadState(file).failed
           /\ DefaultsFilled(JSONparse(file.text), ReadState(file).state)

\* C25: round trip. A state a handler saves is what a load of the written file
\* returns, and a state loaded from the file, saved again and reloaded is the
\* same record, in both cases in every field except lastModified.
RoundTrip(state, now) == ReadState(SavedFile(state, now))

SameButLastModified(a, b) == Without(a, {"lastModified"}) = Without(b, {"lastModified"})

C25_RoundTrip ==
    /\ \A r \in Reqs : inflight[r].pc \in {"saving", "recovering"} =>
           /\ ~ReadState(WrittenFile(inflight[r].st, FALSE)).failed
           /\ ReadState(WrittenFile(inflight[r].st, FALSE)).state = inflight[r].st
    /\ file.form = "json" =>
           \A now \in Times :
               /\ ~RoundTrip(ReadState(file).state, now).failed
               /\ RoundTrip(ReadState(file).state, now).state.lastModified = now
               /\ SameButLastModified(RoundTrip(ReadState(file).state, now).state,
                                      ReadState(file).state)

\* a state with a pending consensus value and a history record is being saved,
\* and the file still carries the stamp of an earlier save
C25_Witness ==
    /\ inflight[Submitter].pc = "saving"
    /\ inflight[Submitter].st.inDisagreement
    /\ inflight[Submitter].st.consensusAnswers[LACHLAN] # NULL
    /\ Len(inflight[Submitter].st.history) = 1
    /\ inflight[Viewer].pc = "recovered"


\* C26: whenever the consensus handler compares two consensus values, both
\* were submitted for the question in play during its current disagreement
\* phase, so both are choices of that question: no value left over from an
\* earlier question or an earlier phase takes part in a comparison.
C26_ComparedValuesOfThisQuestion ==
    ConsensusPairComplete =>
        /\ last.answer \in LastQ.choices
        /\ last.loaded.consensusAnswers[LastOther] \in LastQ.choices


\* some submission is accepted in the stored state
SomeSubmissionAccepted ==
    \E kind \in {"answer", "consensus"}, p \in Players, a \in AnswerInputs :
        Handle(kind, store, p, a, questions).saved

\* C27 as claimed: with a non-empty catalog every state that is not completed
\* accepts some submission, and once both players only submit the correct
\* answer, each through whichever entry point accepts it (weak fairness on the
\* two players), the game eventually is completed.
C27_Progress ==
    /\ [](~store.completed => SomeSubmissionAccepted)
    /\ (mode = "correct") ~> store.completed

\* each player keeps using each entry point that accepts the correct answer
EveryEntryPointUsed ==
    \A p \in Players :
        /\ WF_vars(PlayCorrectVia("answer", p))
        /\ WF_vars(PlayCorrectVia("consensus", p))

\* C27 amended: every state that is not completed accepts some submission,
\* and the game eventually is completed when each player keeps submitting the
\* correct answer through every entry point that accepts it (weak fairness on
\* each player's first-round and on each player's consensus submissions).
C27_ProgressEveryEntryPoint ==
    /\ [](~store.completed => SomeSubmissionAccepted)
    /\ EveryEntryPointUsed => ((mode = "correct") ~> store.completed)

C27_Witness ==
    /\ mode = "correct"
    /\ store.completed
    /\ last.kind = "consensus"
    /\ last.loaded.consensusAnswers[LastOther] # NULL
    /\ Len(questions) = MaxQuestions


\* values a hidden slot might hold instead
HiddenValues == {"A", "B", "C"}

\* the catalog with every correct answer replaced by c
WithCorrectAnswer(qs, c) == [i \in DOMAIN qs |-> [qs[i] EXCEPT !.correct_answer = c]]

\* C28: the view sent to player p is the same for any value of the other
\* player's first-round answer unless the game is in disagreement, the same
\* for any value of the other player's consensus answer, the same whatever
\* the correct answers are, and carries neither a correct answer nor the
\* history: states that differ only in these hidden values give p equal views.
C28_ViewHidesOtherValues ==
    response.to \in Players =>
        LET p == response.to
            other == otherPlayerOf(p)
        IN  /\ response.status = 200
            /\ (~store.inDisagreement /\ store.answers[other] # NULL) =>
                   \A v \in HiddenValues :
                       stateView([store EXCEPT !.answers[other] = v], p, questions)
                           = response.body
            /\ store.consensusAnswers[other] # NULL =>
                   \A v \in HiddenValues :
                       stateView([store EXCEPT !.consensusAnswers[other] = v], p, questions)
                           = response.body
            /\ \A c \in HiddenValues :
                   stateView(store, p, WithCorrectAnswer(questions, c)) = response.body
            /\ DOMAIN response.body \cap {"correct_answer", "correctAnswer", "history"} = {}
            /\ "question" \in DOMAIN response.body =>
                   "correct_answer" \notin DOMAIN response.body.question

C28_Witness ==
    /\ response.to = LACHLAN
    /\ "question" \in DOMAIN response.body
    /\ ~store.inDisagreement
    /\ store.answers[LEIGH] # NULL
    /\ store.consensusAnswers[LEIGH] # NULL

====
